---- MODULE Spec2Model ----
(***************************************************************************)
(* tiny_pretty: the document model (src/src/doc.rs), the print options     *)
(* (src/src/options.rs) and the printer with its fitting oracle            *)
(* (src/src/print.rs).                                                     *)
(*                                                                         *)
(* A string is a sequence of one-character strings.  A Vec is a sequence   *)
(* whose last element is the top (push = Append, pop = remove the last).   *)
(***************************************************************************)
EXTENDS Integers, Sequences, FiniteSets, TLC

VARIABLES doc, options, pc, cols, actions, calls, last, flat_since, flat_by

vars == <<doc, options, pc, cols, actions, calls, last, flat_since, flat_by>>

----------------------------------------------------------------------------
(* Bounds of the explored inputs *)

MaxText == 2
MaxWidth == 3
MaxTab == 2
MaxNest == 2

----------------------------------------------------------------------------
(* Strings *)

Repeat(c, n) == [i \in 1..n |-> c]

Letter(k) == IF k = 1 THEN "a" ELSE IF k = 2 THEN "b" ELSE IF k = 3 THEN "c" ELSE "d"

\* the text of length k used by the explored documents: k copies of the k-th letter
Word(k) == Repeat(Letter(k), k)

measure_text_width(text) == Len(text)

----------------------------------------------------------------------------
(* Doc: the enum and its builders *)

Nil == [k |-> "Nil"]
Alt(doc_flat, doc_break) == [k |-> "Alt", a |-> doc_flat, b |-> doc_break]
Union(attempt, alternate) == [k |-> "Union", a |-> attempt, b |-> alternate]
Nest(offset, d) == [k |-> "Nest", n |-> offset, a |-> d]
Text(s) == [k |-> "Text", t |-> s]
NewLine == [k |-> "NewLine"]
EmptyLine == [k |-> "EmptyLine"]
Break(spaces, offset) == [k |-> "Break", n |-> spaces, m |-> offset]
Group(docs) == [k |-> "Group", ds |-> docs]
GroupThen(group, doc_flat, doc_break) ==
    [k |-> "GroupThen", ds |-> group, a |-> doc_flat, b |-> doc_break]
List(docs) == [k |-> "List", ds |-> docs]
\* f names the closure held by the node
Column(f) == [k |-> "Column", f |-> f]

text(s) == Text(s)
nil == Nil
space == Text(<<" ">>)
hard_line == NewLine
soft_line == Group(<<Break(1, 0)>>)
empty_line == EmptyLine
list(docs) == List(docs)
line_or_space == Break(1, 0)
line_or_nil == Break(0, 0)
flat_or_break(doc_flat, doc_break) == Alt(doc_flat, doc_break)
union(self, alternate) == Union(self, alternate)

\* (mutant) a Group is wrapped like any other document
group_WrapGroup(self) ==
    CASE self.k = "List" -> Group(self.ds)
      [] OTHER -> Group(<<self>>)

group(self) ==
    CASE self.k = "List" -> Group(self.ds)
      [] self.k = "Group" -> self
      [] OTHER -> Group(<<self>>)

append(self, other) ==
    LET current == IF self.k = "List" THEN self.ds ELSE <<self>>
    IN  IF other.k = "List" THEN List(current \o other.ds)
                            ELSE List(Append(current, other))

concat(self, iter) ==
    LET current == IF self.k = "List" THEN self.ds ELSE <<self>>
    IN  List(current \o iter)

nest(self, size) ==
    IF self.k = "Break" THEN Break(self.n, self.m + size)
                        ELSE Nest(size, self)

column(f) == Column(f)

DigitChars == <<"0", "1", "2", "3", "4", "5", "6", "7", "8", "9">>

RECURSIVE to_string(_)
\* column.to_string()
to_string(n) ==
    IF n < 10 THEN <<DigitChars[n + 1]>>
    ELSE to_string(n \div 10) \o <<DigitChars[(n % 10) + 1]>>

\* the closures of the explored documents: the column followed by a dot, and
\* a hard line and a text indented to the column
Closures == {"digits", "align"}

\* (mutant) the closure is called with column 0
Invoke_AtZero(f, col) ==
    IF f = "digits" THEN append(text(to_string(0)), text(<<".">>))
                    ELSE nest(list(<<hard_line, text(<<"a">>)>>), 0)

\* the call f(col) of the closure held by a Column node
Invoke(f, col) ==
    IF f = "digits" THEN append(text(to_string(col)), text(<<".">>))
                    ELSE nest(list(<<hard_line, text(<<"a">>)>>), col)

----------------------------------------------------------------------------
(* PrintOptions *)

LineBreak == {"Lf", "Crlf"}
IndentKind == {"Space", "Tab"}

PrintOptions ==
    [line_break : LineBreak, indent_kind : IndentKind,
     width : 1..MaxWidth, tab_size : 0..MaxTab]

DefaultOptions ==
    [line_break |-> "Lf", indent_kind |-> "Space", width |-> 80, tab_size |-> 2]

----------------------------------------------------------------------------
(* Vec helpers and tasks (type Action = (usize, Mode, &Doc)) *)

Task(indent, mode, d) == [indent |-> indent, mode |-> mode, doc |-> d]

Top(s) == s[Len(s)]
Pop(s) == SubSeq(s, 1, Len(s) - 1)
Rev(s) == [i \in 1..Len(s) |-> s[Len(s) + 1 - i]]

\* (mutant) the children are pushed without .rev()
RevTasks_Forward(docs, indent, mode) ==
    [i \in 1..Len(docs) |-> Task(indent, mode, docs[i])]

\* docs.iter().map(|doc| (indent, mode, doc)).rev()
RevTasks(docs, indent, mode) ==
    [i \in 1..Len(docs) |-> Task(indent, mode, docs[Len(docs) + 1 - i])]

----------------------------------------------------------------------------
(* fitting: the oracle.  actions is the local Vec, best the not yet        *)
(* consumed part of the printer's stack, read from its top downwards.      *)

\* (mutant) the oracle calls the closure and scans what it returns
FittingColumn_Invokes(t, c) == <<[t EXCEPT !.doc = Invoke(t.doc.f, c)]>>

\* what the oracle puts on its local stack for a Column task: nothing, the
\* closure is not called
FittingColumn(t, c) == <<>>

\* (mutant) a HardLine ends the lookahead with true in both modes
FittingNewLine_AlwaysTrue(mode) == TRUE

\* return matches!(mode, Mode::Break)
FittingNewLine(mode) == mode = "Break"

\* (mutant) a BlankLine starts the measurement of a new line
FittingEmptyLine_Reset(c) == 0

\* Doc::EmptyLine => {}: the simulated column after a BlankLine
FittingEmptyLine(c) == c

RECURSIVE fitting(_, _, _, _)
\* (the arguments of an iteration are bound to their values before the body
\* of the loop reads them)
fitting(actions_in, best_actions, cols_in, width) ==
  \E acts \in {actions_in}, best \in {best_actions}, c \in {cols_in} :
      IF acts = <<>> /\ best = <<>> THEN TRUE
      ELSE
        LET fromActs == acts # <<>>
            t  == IF fromActs THEN Top(acts) ELSE Top(best)
            a1 == IF fromActs THEN Pop(acts) ELSE acts
            b1 == IF fromActs THEN best ELSE Pop(best)
            d  == t.doc
        IN  CASE d.k = "Nil" ->
                   IF c > width THEN FALSE ELSE fitting(a1, b1, c, width)
              [] d.k = "Alt" ->
                   IF c > width THEN FALSE
                   ELSE fitting(Append(a1, Task(t.indent, t.mode,
                                   IF t.mode = "Flat" THEN d.a ELSE d.b)),
                                b1, c, width)
              [] d.k = "Union" ->
                   IF c > width THEN FALSE
                   ELSE fitting(Append(a1, Task(t.indent, t.mode, d.b)), b1, c, width)
              [] d.k = "Nest" ->
                   IF c > width THEN FALSE
                   ELSE fitting(Append(a1, Task(t.indent + d.n, t.mode, d.a)),
                                b1, c, width)
              [] d.k = "Text" ->
                   LET c1 == c + measure_text_width(d.t)
                   IN  IF c1 > width THEN FALSE ELSE fitting(a1, b1, c1, width)
              [] d.k = "Break" ->
                   IF t.mode = "Flat"
                   THEN LET c1 == c + d.n
                        IN  IF c1 > width THEN FALSE ELSE fitting(a1, b1, c1, width)
                   ELSE TRUE
              [] d.k = "NewLine" -> FittingNewLine(t.mode)
              [] d.k = "EmptyLine" ->
                   LET c1 == FittingEmptyLine(c)
                   IN  IF c1 > width THEN FALSE ELSE fitting(a1, b1, c1, width)
              [] d.k = "Column" ->
                   IF c > width THEN FALSE
                   ELSE fitting(a1 \o FittingColumn(t, c), b1, c, width)
              [] d.k \in {"Group", "List"} ->
                   IF c > width THEN FALSE
                   ELSE fitting(a1 \o RevTasks(d.ds, t.indent, t.mode), b1, c, width)
              [] d.k = "GroupThen" ->
                   IF c > width THEN FALSE
                   ELSE fitting(Append(a1, Task(t.indent, t.mode,
                                   IF t.mode = "Flat" THEN d.a ELSE d.b))
                                  \o RevTasks(d.ds, t.indent, t.mode),
                                b1, c, width)

----------------------------------------------------------------------------
(* Printer.  p = [options, cols, actions, calls]: the Printer struct and   *)
(* the chain of print_to invocations.  calls[1] is the invocation made by  *)
(* print; every further one is the nested invocation of a Doc::Union arm   *)
(* and keeps that arm's locals (original_cols, indent, mode, attempt,      *)
(* alternate; original_actions is its stop_at).  snap is history: the      *)
(* printer as it was when the Union task had just been popped.             *)

Frame(stop_at, original_cols, indent, mode, attempt, alternate, snap) ==
    [stop_at |-> stop_at, out |-> <<>>, fits |-> TRUE,
     original_cols |-> original_cols, indent |-> indent, mode |-> mode,
     attempt |-> attempt, alternate |-> alternate, snap |-> snap]

NoSnap == [cols |-> 0, actions |-> <<>>, calls |-> <<>>]

\* (mutant) the root task is pushed in Flat mode
PrinterNew_Flat(d, o) ==
    [options |-> o, cols |-> 0, actions |-> <<Task(0, "Flat", d)>>,
     calls |-> <<Frame(0, 0, 0, "Break", Nil, Nil, NoSnap)>>]

\* Printer::new together with the call printer.print_to(0, &mut out)
PrinterNew(d, o) ==
    [options |-> o, cols |-> 0, actions |-> <<Task(0, "Break", d)>>,
     calls |-> <<Frame(0, 0, 0, "Break", Nil, Nil, NoSnap)>>]

Cur(p) == p.calls[Len(p.calls)]

\* (mutant) the line_break option is not consulted
line_break_LfOnly(o) == <<"\n">>

line_break(o) == IF o.line_break = "Lf" THEN <<"\n">> ELSE <<"\r", "\n">>

\* (mutant) indent_kind is not consulted
Indentation_AlwaysTab(o, n) ==
    Repeat("\t", n \div o.tab_size) \o Repeat(" ", n % o.tab_size)

\* (mutant) one tab is printed per column of indentation
Indentation_TabPerColumn(o, n) ==
    IF o.indent_kind = "Space" THEN Repeat(" ", n) ELSE Repeat("\t", n)

\* (mutant) the columns left over by the tabs are not printed
Indentation_NoRemainder(o, n) ==
    IF o.indent_kind = "Space"
    THEN Repeat(" ", n)
    ELSE Repeat("\t", n \div o.tab_size)

\* the indentation printed after a line break for a target column n
Indentation(o, n) ==
    IF o.indent_kind = "Space"
    THEN Repeat(" ", n)
    ELSE Repeat("\t", n \div o.tab_size) \o Repeat(" ", n % o.tab_size)

push_str(p, s) == [p EXCEPT !.calls[Len(p.calls)].out = @ \o s]

\* (mutant) fits = self.cols <= self.options.width
UpdateFits_Overwrite(p) ==
    [p EXCEPT !.calls[Len(p.calls)].fits = (p.cols <= p.options.width)]

\* fits &= self.cols <= self.options.width
UpdateFits(p) ==
    [p EXCEPT !.calls[Len(p.calls)].fits = @ /\ (p.cols <= p.options.width)]

Push(p, t) == [p EXCEPT !.actions = Append(@, t)]
Extend(p, ts) == [p EXCEPT !.actions = @ \o ts]

ArmNil(p, indent, mode, d) == p

ArmAlt(p, indent, mode, d) ==
    IF mode = "Flat" THEN Push(p, Task(indent, mode, d.a))
                     ELSE Push(p, Task(indent, mode, d.b))

\* the arm up to the entry of the nested print_to(original_actions, &mut buf)
ArmUnion(p, indent, mode, d) ==
    LET original_cols == p.cols
        original_actions == Len(p.actions)
        q == Push(p, Task(indent, mode, d.a))
    IN  [q EXCEPT !.calls = Append(@, Frame(original_actions, original_cols,
                                            indent, mode, d.a, d.b,
                                            [cols |-> p.cols,
                                             actions |-> p.actions,
                                             calls |-> p.calls]))]

\* (mutant) the child keeps the indentation of the Nest task
ArmNest_KeepIndent(p, indent, mode, d) == Push(p, Task(indent, mode, d.a))

ArmNest(p, indent, mode, d) == Push(p, Task(indent + d.n, mode, d.a))

ArmText(p, indent, mode, d) ==
    UpdateFits(push_str([p EXCEPT !.cols = @ + measure_text_width(d.t)], d.t))

\* (mutant) the column counter is not set to the indentation
ArmNewLine_KeepCols(p, indent, mode, d) ==
    UpdateFits(push_str(p, line_break(p.options) \o Indentation(p.options, indent)))

ArmNewLine(p, indent, mode, d) ==
    UpdateFits(push_str([p EXCEPT !.cols = indent],
                        line_break(p.options) \o Indentation(p.options, indent)))

\* (mutant) a BlankLine pads like a HardLine
ArmEmptyLine_Padded(p, indent, mode, d) ==
    push_str(p, line_break(p.options) \o Indentation(p.options, indent))

ArmEmptyLine(p, indent, mode, d) == push_str(p, line_break(p.options))

ArmBreak(p, indent, mode, d) ==
    IF mode = "Flat"
    THEN UpdateFits(push_str([p EXCEPT !.cols = @ + d.n], Repeat(" ", d.n)))
    ELSE UpdateFits(push_str([p EXCEPT !.cols = indent + d.m],
                             line_break(p.options)
                               \o Indentation(p.options, indent + d.m)))

\* (mutant) the oracle is not asked and the group is broken
GroupFits_Never(p, indent, docs) == FALSE

\* (mutant) the oracle is asked about the group alone, without what follows
GroupFits_Local(p, indent, docs) ==
    fitting(RevTasks(docs, indent, "Flat"), <<>>, p.cols, p.options.width)

\* the oracle's answer for a group popped in Break mode (p is the printer
\* after the pop)
GroupFits(p, indent, docs) ==
    fitting(RevTasks(docs, indent, "Flat"), p.actions, p.cols, p.options.width)

\* (mutant) the oracle takes the pending tasks it walks over off the stack
ArmGroup_DrainsStack(p, indent, mode, d) ==
    IF mode = "Flat"
    THEN Extend(p, RevTasks(d.ds, indent, "Flat"))
    ELSE LET m == IF GroupFits(p, indent, d.ds) THEN "Flat" ELSE "Break"
         IN  [p EXCEPT !.actions = RevTasks(d.ds, indent, m)]

ArmGroup(p, indent, mode, d) ==
    IF mode = "Flat"
    THEN Extend(p, RevTasks(d.ds, indent, "Flat"))
    ELSE LET m == IF GroupFits(p, indent, d.ds) THEN "Flat" ELSE "Break"
         IN  Extend(p, RevTasks(d.ds, indent, m))

\* (mutant) the follow-up is pushed above the children of the group
ArmGroupThen_FollowUpFirst(p, indent, mode, d) ==
    IF mode = "Flat"
    THEN Push(Extend(p, RevTasks(d.ds, indent, "Flat")), Task(indent, "Flat", d.a))
    ELSE LET original_mode == mode
             m == IF GroupFits(p, indent, d.ds) THEN "Flat" ELSE "Break"
         IN  Push(Extend(p, RevTasks(d.ds, indent, m)),
                  Task(indent, original_mode, IF m = "Flat" THEN d.a ELSE d.b))

\* (mutant) the follow-up is pushed in the mode decided for the children
ArmGroupThen_FollowUpDecided(p, indent, mode, d) ==
    IF mode = "Flat"
    THEN Extend(Push(p, Task(indent, "Flat", d.a)), RevTasks(d.ds, indent, "Flat"))
    ELSE LET m == IF GroupFits(p, indent, d.ds) THEN "Flat" ELSE "Break"
         IN  Extend(Push(p, Task(indent, m, IF m = "Flat" THEN d.a ELSE d.b)),
                    RevTasks(d.ds, indent, m))

ArmGroupThen(p, indent, mode, d) ==
    IF mode = "Flat"
    THEN Extend(Push(p, Task(indent, "Flat", d.a)), RevTasks(d.ds, indent, "Flat"))
    ELSE LET original_mode == mode
             m == IF GroupFits(p, indent, d.ds) THEN "Flat" ELSE "Break"
         IN  Extend(Push(p, Task(indent, original_mode,
                                 IF m = "Flat" THEN d.a ELSE d.b)),
                    RevTasks(d.ds, indent, m))

\* (mutant) the children of a List are pushed in Break mode
ArmList_Break(p, indent, mode, d) == Extend(p, RevTasks(d.ds, indent, "Break"))

ArmList(p, indent, mode, d) == Extend(p, RevTasks(d.ds, indent, mode))

\* (mutant) the sub-tree is pushed in Break mode with no indentation
ArmColumn_Reset(p, indent, mode, d) ==
    Push(p, Task(0, "Break", Invoke(d.f, p.cols)))

\* the closure is called with the current column and the document it returns
\* is pushed with the indentation and the mode of the Column task
ArmColumn(p, indent, mode, d) ==
    Push(p, Task(indent, mode, Invoke(d.f, p.cols)))

\* (mutant) the loop runs until the stack is empty, whatever stop_at
Looping_UntilEmpty(p) == Len(p.actions) > 0

\* the loop condition of print_to
Looping(p) == Len(p.actions) > Cur(p).stop_at

\* one iteration of the loop of print_to: pop a task and dispatch on its doc
Dispatch(p) ==
    LET t == Top(p.actions)
        q == [p EXCEPT !.actions = Pop(@)]
        d == t.doc
    IN  CASE d.k = "Nil" -> ArmNil(q, t.indent, t.mode, d)
          [] d.k = "Alt" -> ArmAlt(q, t.indent, t.mode, d)
          [] d.k = "Union" -> ArmUnion(q, t.indent, t.mode, d)
          [] d.k = "Nest" -> ArmNest(q, t.indent, t.mode, d)
          [] d.k = "Text" -> ArmText(q, t.indent, t.mode, d)
          [] d.k = "NewLine" -> ArmNewLine(q, t.indent, t.mode, d)
          [] d.k = "EmptyLine" -> ArmEmptyLine(q, t.indent, t.mode, d)
          [] d.k = "Break" -> ArmBreak(q, t.indent, t.mode, d)
          [] d.k = "Group" -> ArmGroup(q, t.indent, t.mode, d)
          [] d.k = "GroupThen" -> ArmGroupThen(q, t.indent, t.mode, d)
          [] d.k = "List" -> ArmList(q, t.indent, t.mode, d)
          [] d.k = "Column" -> ArmColumn(q, t.indent, t.mode, d)

\* (mutant) the attempt is kept whatever the nested print_to returned
UnionReturn_Always(p) ==
    LET f == Cur(p)
        n == Len(p.calls)
        back == [p EXCEPT !.calls = Pop(@)]
    IN  [back EXCEPT !.calls[n - 1].out = @ \o f.out]

\* (mutant) a discarded attempt leaves its column behind
UnionReturn_KeepCols(p) ==
    LET f == Cur(p)
        n == Len(p.calls)
        back == [p EXCEPT !.calls = Pop(@)]
    IN  IF f.fits
        THEN [back EXCEPT !.calls[n - 1].out = @ \o f.out]
        ELSE [back EXCEPT !.actions = Append(SubSeq(@, 1, f.stop_at),
                                             Task(f.indent, f.mode, f.alternate))]

\* (mutant) a discarded attempt is put back on the stack as it was
UnionReturn_Retry(p) ==
    LET f == Cur(p)
        n == Len(p.calls)
        back == [p EXCEPT !.calls = Pop(@)]
    IN  IF f.fits
        THEN [back EXCEPT !.calls[n - 1].out = @ \o f.out]
        ELSE [back EXCEPT !.cols = f.original_cols,
                          !.actions = Append(SubSeq(@, 1, f.stop_at),
                                             Task(f.indent, f.mode,
                                                  Union(f.attempt, f.alternate)))]

\* the rest of the Doc::Union arm, once the nested print_to has returned
UnionReturn(p) ==
    LET f == Cur(p)
        n == Len(p.calls)
        back == [p EXCEPT !.calls = Pop(@)]
    IN  IF f.fits
        THEN [back EXCEPT !.calls[n - 1].out = @ \o f.out]
        ELSE [back EXCEPT !.cols = f.original_cols,
                          !.actions = Append(SubSeq(@, 1, f.stop_at),
                                             Task(f.indent, f.mode, f.alternate))]

\* print_to run to completion
RECURSIVE print_to(_)
print_to(p) ==
    IF Looping(p) THEN print_to(Dispatch(p))
    ELSE IF Len(p.calls) > 1 THEN print_to(UnionReturn(p))
    ELSE p

\* pub fn print: the returned string, or <<"panic">> when the assertion fails
print(d, o) ==
    IF ~(o.tab_size > 0) THEN <<"panic">>
    ELSE print_to(PrinterNew(d, o)).calls[1].out

----------------------------------------------------------------------------
(* The explored documents, built with the builders of doc.rs *)

T(k) == text(Word(k))

Texts == {T(k) : k \in 1..MaxText}

\* documents of Text, List, Nest and Nil only
PlainDocs ==
    {append(x, nest(append(y, z), 1)) : x \in Texts \cup {nil}, y \in Texts,
                                         z \in Texts \cup {nil, list(<<>>)}}

\* what the explored groups contain
Inner ==
    Texts \cup
    {nil, hard_line, empty_line, line_or_nil,
     flat_or_break(T(1), hard_line),
     union(T(MaxText), T(1)),
     nest(hard_line, 1),
     soft_line,
     group(list(<<nest(line_or_space, 1), T(1)>>)),
     GroupThen(<<line_or_space>>, T(1), T(MaxText))}

\* what follows an explored group
After ==
    {nil, T(1), nest(line_or_nil, 1), hard_line,
     group(list(<<T(1), line_or_space>>)),
     flat_or_break(T(MaxText), line_or_space)}

\* a group between a text and pending content
GroupDocs ==
    {list(<<x, group(list(<<y, line_or_space, z>>)), w>>) :
        x \in Texts, y \in Texts \cup {hard_line}, z \in Inner, w \in After}

\* what a Union attempts
Attempts ==
    Texts \cup
    {list(<<T(1), line_or_space, T(MaxText)>>),
     group(list(<<T(1), line_or_space, T(1)>>)),
     list(<<T(1), hard_line, T(MaxText)>>),
     union(T(MaxText), T(1)),
     list(<<union(T(1), T(MaxText)), T(MaxText)>>),
     list(<<T(1), union(T(MaxText), nil)>>),
     list(<<T(MaxText), empty_line>>),
     group(list(<<hard_line, line_or_space, T(1)>>))}

Fallbacks == {nil, T(1), list(<<hard_line, T(1)>>)}

\* a Union between a text and pending content, in Break and in Flat mode
UnionDocs ==
    {list(<<x, union(a, b), w>>) :
        x \in Texts \cup {nil}, a \in Attempts, b \in Fallbacks, w \in {nil, T(1)}}
    \cup
    {group(list(<<x, union(a, b), w>>)) :
        x \in Texts \cup {nil}, a \in Attempts, b \in Fallbacks,
        w \in {nil, line_or_space}}

\* mode dependent nodes outside and inside groups, nested indentation
ModeDocs ==
    {nest(list(<<x, y, nest(list(<<z, y>>), 1)>>), 1) :
        x \in Texts,
        y \in {line_or_space, nest(line_or_nil, 1), hard_line, empty_line,
               flat_or_break(T(1), T(MaxText)), soft_line},
        z \in Texts \cup {GroupThen(<<T(1), line_or_space>>, T(1), hard_line),
                          group(flat_or_break(T(1), T(MaxText))),
                          flat_or_break(T(1), T(MaxText))}}

\* short documents: a group and what follows it
SmallDocs ==
    {list(<<group(list(<<x, b>>)), w>>) :
        x \in {nil, T(1)},
        b \in {line_or_space, line_or_nil, soft_line,
               flat_or_break(nil, T(1)), union(T(1), nil)},
        w \in {nil, T(1), line_or_nil, group(line_or_space),
               flat_or_break(T(1), nil)}}

\* a blank line and a hard line under the same indentation, outside a group
\* and inside one that fits
IndentDocs ==
    {nest(empty_line, 1), nest(hard_line, 1)} \cup
    {nest(list(<<T(1), group(list(<<T(1), y, T(1)>>)), hard_line>>), 1) :
        y \in {empty_line, line_or_space, soft_line}}

\* words separated by soft lines in a group
FillDocs ==
    {group(list(<<T(1), soft_line, u, T(1), soft_line, T(1)>>)) :
        u \in {nil, T(1), union(T(1), nil), union(T(MaxText), T(1))}}

\* a group without children popped after a text, before a nested FlexBreak
FoldDocs ==
    {list(<<T(MaxText), g, nest(line_or_nil, 1), T(1)>>) :
        g \in {group(list(<<>>)), GroupThen(<<>>, T(1), T(MaxText)),
                group(T(1))}}

\* a Column node in a group and pending after it, under indentation; in a
\* Union attempt; and the document of the documentation of Doc::column
ColumnDocs ==
    {nest(list(<<x, group(list(<<T(1), line_or_space, column(f)>>)),
                 column(f), w>>), 1) :
        x \in {nil, T(1)}, f \in Closures, w \in {nil, T(1)}}
    \cup
    {list(<<T(1), union(column(f), b), column(f)>>) :
        f \in Closures, b \in {nil, column("digits")}}
    \cup
    {append(text(Word(MaxText)), column("digits"))}

\* a GroupThen whose follow-ups differ, in a group that can fit
FollowDocs ==
    {group(list(<<GroupThen(<<x, line_or_nil>>, T(1), T(MaxText)), w>>)) :
        x \in {nil, T(1)}, w \in {nil, T(1)}}

Docs ==
    PlainDocs \cup GroupDocs \cup UnionDocs \cup ModeDocs \cup SmallDocs
      \cup IndentDocs \cup FillDocs \cup FoldDocs \cup ColumnDocs
      \cup FollowDocs

----------------------------------------------------------------------------
(* The state machine: print(doc, options) run one loop iteration at a time *)

P == [options |-> options, cols |-> cols, actions |-> actions, calls |-> calls]

NoTask == Task(0, "Break", Nil)

\* history: a Group popped by the print_to of print was answered "fits" by
\* the oracle and no line break has reached the returned string since
FlatSince(p, op, t) ==
    IF op = "commit" /\ Len(p.calls) = 1
    THEN flat_since /\ \A i \in 1..Len(Cur(P).out) : Cur(P).out[i] # "\n"
    ELSE IF Len(calls) = 1 /\ Len(p.calls) = 1
    THEN CASE op = "Group" /\ t.mode = "Break" /\ t.doc.ds # <<>> ->
                IF Top(p.actions).mode = "Flat" THEN TRUE ELSE flat_since
           [] op \in {"NewLine", "EmptyLine"} -> FALSE
           [] op = "Break" /\ t.mode = "Break" -> FALSE
           [] OTHER -> flat_since
    ELSE flat_since

\* history: the Group the oracle last answered "fits" for, among those popped
\* by the print_to of print
FlatBy(p, op, t) ==
    IF /\ Len(calls) = 1 /\ Len(p.calls) = 1
       /\ op = "Group" /\ t.mode = "Break" /\ t.doc.ds # <<>>
       /\ Top(p.actions).mode = "Flat"
    THEN t.doc
    ELSE flat_by

\* last: the step just taken, the task it popped and the printer before it
Load(p, op, t) ==
    /\ cols' = p.cols
    /\ actions' = p.actions
    /\ calls' = p.calls
    /\ last' = [op |-> op, task |-> t, pre |-> P]
    /\ flat_since' = FlatSince(p, op, t)
    /\ flat_by' = FlatBy(p, op, t)

Init ==
    /\ doc \in Docs
    /\ options \in PrintOptions
    /\ pc = "start"
    /\ cols = 0
    /\ actions = <<>>
    /\ calls = <<>>
    /\ last = [op |-> "none", task |-> NoTask,
               pre |-> [options |-> options, cols |-> 0, actions |-> <<>>,
                        calls |-> <<>>]]
    /\ flat_since = FALSE
    /\ flat_by = Nil

\* assert!(options.tab_size > 0) fails
PrintPanic ==
    /\ pc = "start"
    /\ ~(options.tab_size > 0)
    /\ pc' = "panic"
    /\ Load(P, "panic", NoTask)
    /\ UNCHANGED <<doc, options>>

\* (mutant) print without its assertion
PrintStart_NoAssert ==
    /\ pc = "start"
    /\ pc' = "run"
    /\ Load(PrinterNew(doc, options), "new", NoTask)
    /\ UNCHANGED <<doc, options>>

\* the assertion holds: Printer::new and the call of print_to(0, &mut out)
PrintStart ==
    /\ pc = "start"
    /\ options.tab_size > 0
    /\ pc' = "run"
    /\ Load(PrinterNew(doc, options), "new", NoTask)
    /\ UNCHANGED <<doc, options>>

\* the loop of print_to goes on and pops a task whose doc is of kind k
Ready(k) ==
    /\ pc = "run"
    /\ Looping(P)
    /\ Top(actions).doc.k = k

\* the task about to be popped and the printer once it is popped
Task0 == Top(actions)
Popped == [P EXCEPT !.actions = Pop(@)]

StepNil ==
    /\ Ready("Nil")
    /\ Load(ArmNil(Popped, Task0.indent, Task0.mode, Task0.doc), "Nil", Task0)
    /\ UNCHANGED <<doc, options, pc>>

StepAlt ==
    /\ Ready("Alt")
    /\ Load(ArmAlt(Popped, Task0.indent, Task0.mode, Task0.doc), "Alt", Task0)
    /\ UNCHANGED <<doc, options, pc>>

StepUnion ==
    /\ Ready("Union")
    /\ Load(ArmUnion(Popped, Task0.indent, Task0.mode, Task0.doc), "Union", Task0)
    /\ UNCHANGED <<doc, options, pc>>

StepNest ==
    /\ Ready("Nest")
    /\ Load(ArmNest(Popped, Task0.indent, Task0.mode, Task0.doc), "Nest", Task0)
    /\ UNCHANGED <<doc, options, pc>>

StepText ==
    /\ Ready("Text")
    /\ Load(ArmText(Popped, Task0.indent, Task0.mode, Task0.doc), "Text", Task0)
    /\ UNCHANGED <<doc, options, pc>>

StepNewLine ==
    /\ Ready("NewLine")
    /\ Load(ArmNewLine(Popped, Task0.indent, Task0.mode, Task0.doc), "NewLine", Task0)
    /\ UNCHANGED <<doc, options, pc>>

StepEmptyLine ==
    /\ Ready("EmptyLine")
    /\ Load(ArmEmptyLine(Popped, Task0.indent, Task0.mode, Task0.doc), "EmptyLine", Task0)
    /\ UNCHANGED <<doc, options, pc>>

StepBreak ==
    /\ Ready("Break")
    /\ Load(ArmBreak(Popped, Task0.indent, Task0.mode, Task0.doc), "Break", Task0)
    /\ UNCHANGED <<doc, options, pc>>

StepGroup ==
    /\ Ready("Group")
    /\ Load(ArmGroup(Popped, Task0.indent, Task0.mode, Task0.doc), "Group", Task0)
    /\ UNCHANGED <<doc, options, pc>>

StepGroupThen ==
    /\ Ready("GroupThen")
    /\ Load(ArmGroupThen(Popped, Task0.indent, Task0.mode, Task0.doc), "GroupThen", Task0)
    /\ UNCHANGED <<doc, options, pc>>

StepList ==
    /\ Ready("List")
    /\ Load(ArmList(Popped, Task0.indent, Task0.mode, Task0.doc), "List", Task0)
    /\ UNCHANGED <<doc, options, pc>>

StepColumn ==
    /\ Ready("Column")
    /\ Load(ArmColumn(Popped, Task0.indent, Task0.mode, Task0.doc), "Column", Task0)
    /\ UNCHANGED <<doc, options, pc>>

\* the nested print_to of a Union returned true: the attempt is kept
UnionCommit ==
    /\ pc = "run"
    /\ ~Looping(P)
    /\ Len(calls) > 1
    /\ Cur(P).fits
    /\ Load(UnionReturn(P), "commit", NoTask)
    /\ UNCHANGED <<doc, options, pc>>

\* the nested print_to of a Union returned false: the attempt is discarded
UnionRollback ==
    /\ pc = "run"
    /\ ~Looping(P)
    /\ Len(calls) > 1
    /\ ~Cur(P).fits
    /\ Load(UnionReturn(P), "rollback", NoTask)
    /\ UNCHANGED <<doc, options, pc>>

\* the print_to called by print returns; print returns out
PrintReturn ==
    /\ pc = "run"
    /\ ~Looping(P)
    /\ Len(calls) = 1
    /\ pc' = "done"
    /\ Load(P, "return", NoTask)
    /\ UNCHANGED <<doc, options>>

Next ==
    \/ PrintPanic
    \/ PrintStart
    \/ StepNil
    \/ StepAlt
    \/ StepUnion
    \/ StepNest
    \/ StepText
    \/ StepNewLine
    \/ StepEmptyLine
    \/ StepBreak
    \/ StepGroup
    \/ StepGroupThen
    \/ StepList
    \/ StepColumn
    \/ UnionCommit
    \/ UnionRollback
    \/ PrintReturn

Spec == Init /\ [][Next]_vars

\* the string print returned
out == calls[1].out

TypeOK ==
    /\ pc \in {"start", "panic", "run", "done"}
    /\ cols \in Nat
    /\ options \in PrintOptions

----------------------------------------------------------------------------
(* Measures of documents used by the properties *)

RECURSIVE HasKind(_, _)
\* d contains a node whose kind is in ks
HasKind(d, ks) ==
    \/ d.k \in ks
    \/ /\ d.k \in {"Alt", "Union"}
       /\ (HasKind(d.a, ks) \/ HasKind(d.b, ks))
    \/ /\ d.k = "Nest"
       /\ HasKind(d.a, ks)
    \/ /\ d.k \in {"Group", "List"}
       /\ \E i \in 1..Len(d.ds) : HasKind(d.ds[i], ks)
    \/ /\ d.k = "GroupThen"
       /\ \/ \E i \in 1..Len(d.ds) : HasKind(d.ds[i], ks)
          \/ HasKind(d.a, ks)
          \/ HasKind(d.b, ks)

PlainKinds == {"Nil", "Text", "Nest", "List"}
AllKinds ==
    {"Nil", "Alt", "Union", "Nest", "Text", "NewLine", "EmptyLine", "Break",
     "Group", "GroupThen", "List", "Column"}

IsPlain(d) == ~HasKind(d, AllKinds \ PlainKinds)

RECURSIVE PlainText(_)
\* the Text contents of a plain document in left-to-right order
PlainText(d) ==
    CASE d.k = "Text" -> d.t
      [] d.k = "Nest" -> PlainText(d.a)
      [] d.k = "List" ->
           IF d.ds = <<>> THEN <<>>
           ELSE PlainText(Head(d.ds)) \o PlainText(List(Tail(d.ds)))
      [] OTHER -> <<>>

Running == pc \in {"run", "done"}
Done == pc = "done"

----------------------------------------------------------------------------
(* C3 *)

\* C3: with tab_size = 0 print panics, and it does so before the printer is
\* built: no task is ever on the stack or popped, no print_to is entered and
\* nothing is emitted
C3_PanicBeforeAnything ==
    options.tab_size = 0 =>
        /\ pc \in {"start", "panic"}
        /\ actions = <<>>
        /\ calls = <<>>
        /\ cols = 0
        /\ last.op \in {"none", "panic"}

C3_Witness ==
    /\ pc = "panic"
    /\ options.tab_size = 0
    /\ options.indent_kind = "Space"
    /\ HasKind(doc, {"Group"})

----------------------------------------------------------------------------
(* C10 *)

\* C10: for a document of Text, List, Nest and Nil nodes only, print returns
\* the concatenation of the Text contents in document order, whatever the
\* width, indent_kind, line_break and tab_size > 0
C10_PlainIsConcatenation ==
    (Done /\ IsPlain(doc)) => out = PlainText(doc)

C10_Witness ==
    /\ Done
    /\ IsPlain(doc)
    /\ HasKind(doc, {"Nest"})
    /\ Len(out) > options.width
    /\ options.indent_kind = "Tab"
    /\ \E i \in 1..(Len(out) - 1) : out[i] # out[i + 1]

----------------------------------------------------------------------------
(* C4 *)

\* what print gave: the returned string, or <<"panic">>
Result == IF pc = "panic" THEN <<"panic">> ELSE out

Returned == pc \in {"done", "panic"}

\* C4 as stated: with indent_kind = Space, print gives the same result for
\* every value of tab_size
C4_AsStated ==
    (Returned /\ options.indent_kind = "Space") =>
        \A ts \in 0..MaxTab : print(doc, [options EXCEPT !.tab_size = ts]) = Result

\* C4 amended: with indent_kind = Space, print returns the same string for
\* every value of tab_size greater than 0
C4_SpaceIgnoresTabSize ==
    (Done /\ options.indent_kind = "Space") =>
        \A ts \in 1..MaxTab : print(doc, [options EXCEPT !.tab_size = ts]) = out

C4_Witness ==
    /\ Done
    /\ options.indent_kind = "Space"
    /\ options.tab_size = MaxTab
    /\ \E i \in 1..(Len(out) - 1) : out[i] = "\n" /\ out[i + 1] = " "

----------------------------------------------------------------------------
(* C9 *)

GroupKinds == {"Group", "GroupThen"}

\* the tasks pushed by the latest loop iteration
Pushed == SubSeq(actions, Len(last.pre.actions), Len(actions))

\* C9: in a document without groups every task is in Break mode, a FlexBreak
\* prints the line break and the padding for indent + offset, and an Alt
\* applies its break branch, whatever the width; in any document a Flat task
\* is pushed only by a Group, a GroupThen or a Flat task
C9_BreakFormOutsideGroups ==
    Running =>
        /\ ~HasKind(doc, GroupKinds) =>
              /\ \A i \in 1..Len(actions) : actions[i].mode = "Break"
              /\ last.op = "Break" =>
                    /\ Cur(P).out = Cur(last.pre).out \o line_break(options)
                          \o Indentation(options,
                                         last.task.indent + last.task.doc.m)
                    /\ cols = last.task.indent + last.task.doc.m
              /\ last.op = "Alt" =>
                    Top(actions) = Task(last.task.indent, "Break", last.task.doc.b)
        /\ (last.op \in AllKinds \ GroupKinds /\ last.task.mode = "Break") =>
              \A i \in 1..Len(Pushed) : Pushed[i].mode = "Break"

C9_Witness ==
    /\ pc = "run"
    /\ ~HasKind(doc, GroupKinds)
    /\ HasKind(doc, {"Break"})
    /\ last.op = "Alt"
    /\ Top(actions).doc = last.task.doc.b
    /\ options.width = MaxWidth
    /\ \E i \in 1..Len(out) : out[i] = "\n"

----------------------------------------------------------------------------
(* C8 *)

RECURSIVE Total(_)
\* the width of all the text and of all the spaces of FlexBreaks in d
Total(d) ==
    CASE d.k = "Text" -> measure_text_width(d.t)
      [] d.k = "Break" -> d.n
      [] d.k \in {"Alt", "Union"} -> Total(d.a) + Total(d.b)
      [] d.k = "Nest" -> Total(d.a)
      [] d.k \in {"Group", "List"} ->
           IF d.ds = <<>> THEN 0
           ELSE Total(Head(d.ds)) + Total([d EXCEPT !.ds = Tail(@)])
      [] d.k = "GroupThen" ->
           Total(List(d.ds)) + Total(d.a) + Total(d.b)
      [] OTHER -> 0

RECURSIVE BreaksInGroups(_, _)
\* every FlexBreak of d is among the descendants of a group's children
\* (g: d itself is such a descendant)
BreaksInGroups(d, g) ==
    CASE d.k = "Break" -> g
      [] d.k \in {"Alt", "Union"} -> BreaksInGroups(d.a, g) /\ BreaksInGroups(d.b, g)
      [] d.k = "Nest" -> BreaksInGroups(d.a, g)
      [] d.k = "Group" -> \A i \in 1..Len(d.ds) : BreaksInGroups(d.ds[i], TRUE)
      [] d.k = "List" -> \A i \in 1..Len(d.ds) : BreaksInGroups(d.ds[i], g)
      [] d.k = "GroupThen" ->
           /\ \A i \in 1..Len(d.ds) : BreaksInGroups(d.ds[i], TRUE)
           /\ BreaksInGroups(d.a, g)
           /\ BreaksInGroups(d.b, g)
      [] OTHER -> TRUE

NoLineBreak(s) == \A i \in 1..Len(s) : s[i] \notin {"\n", "\r"}

\* the documents C8 is about, printed with a width above their total width
Widened ==
    /\ Done
    /\ HasKind(doc, {"Group"})
    /\ HasKind(doc, {"Break"})
    /\ ~HasKind(doc, {"NewLine", "EmptyLine", "Column"})
    /\ options.width > Total(doc)

\* C8 as stated: a document with Groups and FlexBreaks and without HardLine
\* and BlankLine, printed with a width above its total width, has no line
\* break in its output
C8_AsStated == Widened => NoLineBreak(out)

\* C8 amended: the same for the documents all of whose FlexBreaks are inside
\* a Group; the output is then one line whose length is the final column
C8_WideIsFlat ==
    (Widened /\ BreaksInGroups(doc, FALSE)) =>
        /\ NoLineBreak(out)
        /\ cols = Len(out)
        /\ cols <= Total(doc)

C8_Witness ==
    /\ Widened
    /\ BreaksInGroups(doc, FALSE)
    /\ \E i \in 1..Len(out) : out[i] = " "
    /\ NoLineBreak(out)

----------------------------------------------------------------------------
(* C1 *)

\* A scanned item: a width added to the column, or the end of the scan
\* ("ok": a line break that is certain, "fail": a HardLine met in Flat mode)
Adds(n) == [w |-> n, stop |-> "no"]
Stops(how) == [w |-> 0, stop |-> how]

RECURSIVE Toks(_, _, _)
\* what a task of document d and the given mode puts on the line: FlexBreaks
\* of Flat tasks as their spaces, an Alt by the branch of the mode, a Union by
\* its fallback; hard is what a HardLine of a Flat task counts as
Toks(d, mode, hard) ==
    CASE d.k = "Text" -> <<Adds(measure_text_width(d.t))>>
      [] d.k = "Break" -> IF mode = "Flat" THEN <<Adds(d.n)>> ELSE <<Stops("ok")>>
      [] d.k = "NewLine" -> IF mode = "Flat" THEN <<hard>> ELSE <<Stops("ok")>>
      [] d.k = "Nest" -> Toks(d.a, mode, hard)
      [] d.k = "Alt" -> Toks(IF mode = "Flat" THEN d.a ELSE d.b, mode, hard)
      [] d.k = "Union" -> Toks(d.b, mode, hard)
      [] d.k \in {"Group", "List"} ->
           IF d.ds = <<>> THEN <<>>
           ELSE Toks(Head(d.ds), mode, hard) \o Toks(List(Tail(d.ds)), mode, hard)
      [] d.k = "GroupThen" ->
           Toks(List(d.ds), mode, hard)
             \o Toks(IF mode = "Flat" THEN d.a ELSE d.b, mode, hard)
      [] OTHER -> <<>>

RECURSIVE StackToks(_, _)
\* the pending content of a stack, from its top downwards
StackToks(stack, hard) ==
    IF stack = <<>> THEN <<>>
    ELSE Toks(Top(stack).doc, Top(stack).mode, hard) \o StackToks(Pop(stack), hard)

RECURSIVE Overflows(_, _, _)
\* the column, measured from c, rises above width before the scan ends, or
\* the scan ends on a HardLine met in Flat mode
Overflows(toks, c, width) ==
    IF c > width THEN TRUE
    ELSE IF toks = <<>> THEN FALSE
    ELSE IF Head(toks).stop = "ok" THEN FALSE
    ELSE IF Head(toks).stop = "fail" THEN TRUE
    ELSE Overflows(Tail(toks), c + Head(toks).w, width)

\* a Group with children has just been popped in Break mode
GroupDecided ==
    /\ pc = "run"
    /\ last.op = "Group"
    /\ last.task.mode = "Break"
    /\ last.task.doc.ds # <<>>

\* the mode the children of the group just popped were pushed in
ChildrenMode == Top(actions).mode

\* the flattened group followed by the content pending below it
GroupLine(hard) ==
    Toks(List(last.task.doc.ds), "Flat", hard)
      \o StackToks(Pop(last.pre.actions), hard)

----------------------------------------------------------------------------
(* C2 *)

\* C2: once the oracle has answered "fits" for a Group, the column stays
\* within width at every emission to the returned string until the next line
\* break
C2_FlatStaysWithinWidth ==
    (pc = "run" /\ flat_since /\ Len(calls) = 1
        /\ last.op \in {"Text", "Break", "commit"}) => cols <= options.width

----------------------------------------------------------------------------
(* C7 *)

HasHardLineChild(d) == \E i \in 1..Len(d.ds) : d.ds[i].k = "NewLine"

\* C7: the children of a Group one of whose children is a HardLine are always
\* pushed in Break mode
C7_HardLineGroupBreaks ==
    (pc = "run" /\ last.op = "Group" /\ HasHardLineChild(last.task.doc)) =>
        \A i \in 1..Len(Pushed) : Pushed[i].mode = "Break"

\* the part of C7 the code keeps: the oracle never answers "fits" for such a
\* group
C7_OracleNeverFits ==
    (GroupDecided /\ HasHardLineChild(last.task.doc)) => ChildrenMode = "Break"

----------------------------------------------------------------------------
(* C5 *)

UnionReturned == pc = "run" /\ last.op \in {"commit", "rollback"}

\* the invocation of print_to that has just returned to its Union arm
Returning == Cur(last.pre)

\* the attempt of that Union rendered on its own by print_to, from the column
\* and above the stack the Union task was popped at, as a task of mode m
AttemptRun(m) ==
    print_to([options |-> options,
              cols |-> Returning.original_cols,
              actions |-> Append(Returning.snap.actions,
                                 Task(Returning.indent, m, Returning.attempt)),
              calls |-> <<Frame(Returning.stop_at, 0, 0, "Break", Nil, Nil,
                                NoSnap)>>])

AttemptFits(m) == AttemptRun(m).calls[1].fits

\* C5 as stated: the attempt is kept exactly if its rendering from column c
\* keeps the column within width, and the choice is the same whether the
\* Union task is Flat or Break
C5_AsStated ==
    UnionReturned =>
        \A m \in {"Flat", "Break"} : (last.op = "commit") <=> AttemptFits(m)

\* C5 amended: the attempt is rendered in the mode of the Union task; it is
\* kept, and its rendering appended, exactly if that rendering keeps the
\* column within width after every Text, HardLine and FlexBreak; otherwise
\* nothing of it is kept and the fallback is pushed in the same mode
C5_UnionChoosesByFit ==
    UnionReturned =>
        /\ (last.op = "commit") <=> AttemptFits(Returning.mode)
        /\ last.op = "commit" =>
              /\ Cur(P).out = Cur(Returning.snap).out
                                \o AttemptRun(Returning.mode).calls[1].out
              /\ cols = AttemptRun(Returning.mode).cols
              /\ actions = Returning.snap.actions
        /\ last.op = "rollback" =>
              /\ Cur(P).out = Cur(Returning.snap).out
              /\ Top(actions) = Task(Returning.indent, Returning.mode,
                                     Returning.alternate)

\* a Flat Union falls back although the same attempt fits in Break mode
C5_Witness ==
    /\ UnionReturned
    /\ last.op = "rollback"
    /\ Returning.mode = "Flat"
    /\ AttemptFits("Break")
    /\ Returning.out # <<>>

----------------------------------------------------------------------------
(* C6 *)

\* C6: a discarded attempt leaves the buffers and flags of all enclosing
\* invocations, the column and the stack as they were when the Union task was
\* popped, plus the fallback task on top; and while an attempt is rendered the
\* enclosing buffers and the stack below it do not change
C6_RollbackComplete ==
    /\ UnionReturned /\ last.op = "rollback" =>
          /\ calls = Returning.snap.calls
          /\ cols = Returning.snap.cols
          /\ actions = Append(Returning.snap.actions,
                              Task(Returning.indent, Returning.mode,
                                   Returning.alternate))
    /\ pc = "run" =>
          \A i \in 2..Len(calls) :
              /\ SubSeq(calls, 1, i - 1) = calls[i].snap.calls
              /\ Len(actions) >= calls[i].stop_at
              /\ SubSeq(actions, 1, calls[i].stop_at) = calls[i].snap.actions

\* the discarded attempt had output of its own, part of it spliced in from a
\* committed inner attempt
C6_Witness ==
    /\ UnionReturned
    /\ last.op = "rollback"
    /\ Len(calls) = 1
    /\ out # <<>>
    /\ Returning.out # <<>>
    /\ Returning.attempt = list(<<union(T(1), T(MaxText)), T(MaxText)>>)
    /\ Returning.out = Word(1) \o Word(MaxText)
    /\ cols < last.pre.cols

----------------------------------------------------------------------------
(* C11 *)

\* what the step just taken appended to the buffer it writes to
Emitted ==
    SubSeq(Cur(P).out, Len(Cur(last.pre).out) + 1, Len(Cur(P).out))

\* the number of columns a padding takes: a tab counts for tab_size
RECURSIVE Columns(_)
Columns(s) ==
    IF s = <<>> THEN 0
    ELSE (IF Head(s) = "\t" THEN options.tab_size ELSE 1) + Columns(Tail(s))

\* what a HardLine or a Break-mode FlexBreak printed after its line break
Padding == SubSeq(Emitted, Len(line_break(options)) + 1, Len(Emitted))

RECURSIVE PadLines(_, _)
\* s with k more spaces after each of its line breaks
PadLines(s, k) ==
    IF s = <<>> THEN <<>>
    ELSE <<Head(s)>> \o (IF Head(s) = "\n" THEN Repeat(" ", k) ELSE <<>>)
           \o PadLines(Tail(s), k)

\* documents none of whose line breaks or texts depends on a measure or on
\* the column, and all of whose line breaks are followed by padding
Unmeasured(d) ==
    ~HasKind(d, {"Group", "GroupThen", "Union", "EmptyLine", "Column"})

\* C11: a Nest of k pushes its child with the indentation raised by exactly k
\* and the mode unchanged; a HardLine pads to the indentation of its task and
\* a Break-mode FlexBreak to that indentation plus its offset; a Text and a
\* Flat-mode FlexBreak print the same whatever the indentation; so nesting a
\* whole document by k prints k more columns of padding after each of its
\* line breaks and changes nothing else
C11_NestRaisesPadding ==
    /\ (pc = "run" /\ last.op = "Nest") =>
          /\ Pushed = <<Task(last.task.indent + last.task.doc.n,
                             last.task.mode, last.task.doc.a)>>
          /\ Emitted = <<>>
          /\ cols = last.pre.cols
    /\ (pc = "run" /\ last.op = "NewLine") =>
          /\ Columns(Padding) = last.task.indent
          /\ cols = last.task.indent
    /\ (pc = "run" /\ last.op = "Break" /\ last.task.mode = "Break") =>
          /\ Columns(Padding) = last.task.indent + last.task.doc.m
          /\ cols = last.task.indent + last.task.doc.m
    /\ (pc = "run" /\ last.op = "Break" /\ last.task.mode = "Flat") =>
          /\ Emitted = Repeat(" ", last.task.doc.n)
          /\ cols = last.pre.cols + last.task.doc.n
    /\ (pc = "run" /\ last.op = "Text") =>
          /\ Emitted = last.task.doc.t
          /\ cols = last.pre.cols + Len(last.task.doc.t)
    /\ (Done /\ options.indent_kind = "Space" /\ Unmeasured(doc)) =>
          \A k \in 1..MaxNest : print(nest(doc, k), options) = PadLines(out, k)

\* under two Nests a FlexBreak with an offset has just been padded to column
\* 3, in a document whose nested print differs from its plain one
C11_Witness ==
    /\ pc = "run"
    /\ options.indent_kind = "Space"
    /\ Unmeasured(doc)
    /\ last.op = "Break"
    /\ last.task.mode = "Break"
    /\ last.task.indent = 2
    /\ last.task.doc.m = 1
    /\ Emitted = line_break(options) \o <<" ", " ", " ">>
    /\ print(nest(doc, MaxNest), options) # print(doc, options)

----------------------------------------------------------------------------
(* C12 *)

\* the characters of one line break under the options of the run
OneLineBreak == IF options.line_break = "Crlf" THEN <<"\r", "\n">> ELSE <<"\n">>

\* C12: a BlankLine appends exactly one line break and nothing else, at every
\* indentation and in both modes; a HardLine appends one line break followed
\* by the padding of its task's indentation, made of tabs and spaces only
C12_BlankLineNoPadding ==
    /\ (pc = "run" /\ last.op = "EmptyLine") => Emitted = OneLineBreak
    /\ (pc = "run" /\ last.op = "NewLine") =>
          /\ SubSeq(Emitted, 1, Len(OneLineBreak)) = OneLineBreak
          /\ \A i \in 1..Len(Padding) : Padding[i] \in {"\t", " "}
          /\ Columns(Padding) = last.task.indent
    /\ (Done /\ doc = nest(empty_line, 1)) => out = OneLineBreak
    /\ (Done /\ doc = nest(hard_line, 1)) =>
          out = OneLineBreak \o (IF options.indent_kind = "Tab"
                                    /\ options.tab_size = 1
                                 THEN <<"\t">> ELSE <<" ">>)

\* a BlankLine of a Flat task with indentation 1 has just been printed, in a
\* document that also holds a HardLine at that indentation
C12_Witness ==
    /\ pc = "run"
    /\ last.op = "EmptyLine"
    /\ last.task.mode = "Flat"
    /\ last.task.indent = 1
    /\ HasKind(doc, {"NewLine"})
    /\ Emitted = OneLineBreak

----------------------------------------------------------------------------
(* C13 *)

RECURSIVE WithCr(_)
\* s with each "\n" spelled "\r\n"
WithCr(s) ==
    IF s = <<>> THEN <<>>
    ELSE (IF Head(s) = "\n" THEN <<"\r", "\n">> ELSE <<Head(s)>>)
           \o WithCr(Tail(s))

\* the run of print on the document of this run under other options
Rerun(o) == print_to(PrinterNew(doc, o))

Crlf == [options EXCEPT !.line_break = "Crlf"]
Lf == [options EXCEPT !.line_break = "Lf"]

\* C13: the output under Crlf is the output under Lf with each line break
\* spelled "\r\n" and nothing else changed (same text, same padding, same
\* FlexBreaks broken), and the run ends at the same column
C13_LineBreakOnlySpelling ==
    Done =>
        /\ Rerun(Crlf).calls[1].out = WithCr(Rerun(Lf).calls[1].out)
        /\ Rerun(Crlf).cols = Rerun(Lf).cols
        /\ out = Rerun(options).calls[1].out
        /\ cols = Rerun(options).cols

\* a finished Lf run with a broken FlexBreak, a group and two line breaks
C13_Witness ==
    /\ Done
    /\ options.line_break = "Lf"
    /\ HasKind(doc, {"Break"})
    /\ HasKind(doc, {"Group"})
    /\ \E i, j \in 1..Len(out) : i < j /\ out[i] = "\n" /\ out[j] = "\n"
    /\ Rerun(Crlf).calls[1].out # out

----------------------------------------------------------------------------
(* C14 *)

\* a HardLine or a Break-mode FlexBreak has just been printed
Padded ==
    /\ pc = "run"
    /\ \/ last.op = "NewLine"
       \/ last.op = "Break" /\ last.task.mode = "Break"

\* the column the padding just printed has to reach
TargetIndent ==
    IF last.op = "Break" THEN last.task.indent + last.task.doc.m
                         ELSE last.task.indent

\* C14: under Tab the padding for a target indentation I is I / tab_size tabs
\* followed by I % tab_size spaces, so that tabs * tab_size + spaces = I with
\* fewer than tab_size spaces; under Space it is exactly I spaces
C14_TabPadding ==
    Padded =>
        IF options.indent_kind = "Tab"
        THEN \E tabs, spaces \in 0..TargetIndent :
                /\ Padding = Repeat("\t", tabs) \o Repeat(" ", spaces)
                /\ tabs = TargetIndent \div options.tab_size
                /\ spaces = TargetIndent % options.tab_size
                /\ tabs * options.tab_size + spaces = TargetIndent
                /\ spaces < options.tab_size
        ELSE /\ Len(Padding) = TargetIndent
             /\ \A i \in 1..Len(Padding) : Padding[i] = " "

\* with tab_size 2 the padding for indentation 3 is one tab and one space
C14_Witness ==
    /\ Padded
    /\ options.indent_kind = "Tab"
    /\ options.tab_size = 2
    /\ TargetIndent = 3
    /\ Padding = <<"\t", " ">>

----------------------------------------------------------------------------
(* C15 *)

RECURSIVE ExpandTabs(_, _)
\* s with each tab replaced by size spaces
ExpandTabs(s, size) ==
    IF s = <<>> THEN <<>>
    ELSE (IF Head(s) = "\t" THEN Repeat(" ", size) ELSE <<Head(s)>>)
           \o ExpandTabs(Tail(s), size)

RECURSIVE Decisions(_)
\* the choices of a run from printer p on, in order: the oracle's answer for
\* each Group and GroupThen popped in Break mode, and whether the attempt of
\* each Union is kept
Decisions(p) ==
    IF Looping(p)
    THEN LET t == Top(p.actions)
             q == [p EXCEPT !.actions = Pop(@)]
         IN  (IF t.doc.k \in {"Group", "GroupThen"} /\ t.mode = "Break"
              THEN <<GroupFits(q, t.indent, t.doc.ds)>> ELSE <<>>)
               \o Decisions(Dispatch(p))
    ELSE IF Len(p.calls) > 1
    THEN <<Cur(p).fits>> \o Decisions(UnionReturn(p))
    ELSE <<>>

TabKind == [options EXCEPT !.indent_kind = "Tab"]
SpaceKind == [options EXCEPT !.indent_kind = "Space"]

\* C15: the output under Tab with each tab replaced by tab_size spaces is the
\* output under Space, and both runs ask the oracle the same questions with
\* the same answers, keep the same Union attempts and end at the same column
C15_TabSpaceEquivalent ==
    Done =>
        /\ IF options.indent_kind = "Tab"
           THEN ExpandTabs(out, options.tab_size) = Rerun(SpaceKind).calls[1].out
           ELSE ExpandTabs(Rerun(TabKind).calls[1].out, options.tab_size) = out
        /\ Decisions(PrinterNew(doc, TabKind))
             = Decisions(PrinterNew(doc, SpaceKind))
        /\ Rerun(TabKind).cols = Rerun(SpaceKind).cols

\* a finished Tab run with tab_size 2 that printed a tab and took a decision
C15_Witness ==
    /\ Done
    /\ options.indent_kind = "Tab"
    /\ options.tab_size = 2
    /\ \E i \in 1..Len(out) : out[i] = "\t"
    /\ Decisions(PrinterNew(doc, options)) # <<>>
    /\ Rerun(SpaceKind).calls[1].out # out

----------------------------------------------------------------------------
(* C16 *)

\* a soft_line has just been popped in Break mode
SoftLineDecided == GroupDecided /\ last.task.doc = soft_line

\* the space of the soft_line followed by the content pending below it
FillLine == <<Adds(1)>> \o StackToks(Pop(last.pre.actions), Stops("fail"))

\* the soft_line is printed as a space exactly if its space and the pending
\* content up to the next Break-mode FlexBreak or HardLine, a Union measured
\* by its fallback, keep the column within width
SoftLineByMeasure ==
    SoftLineDecided =>
        (ChildrenMode = "Flat"
            <=> ~Overflows(FillLine, last.pre.cols, options.width))

\* after a soft_line printed as a space, the column stays within width at
\* every emission to the returned string until the next line break
SoftLineSpaceFits ==
    (pc = "run" /\ flat_since /\ flat_by = soft_line /\ Len(calls) = 1
        /\ last.op \in {"Text", "Break", "commit"}) => cols <= options.width

\* C16: a soft_line popped in Break mode is printed as one space when that
\* space and the content that follows it up to the next possible break fit
\* within width from the current column, and as a line break otherwise, each
\* soft_line on its own
C16_SoftLineFills == SoftLineByMeasure /\ SoftLineSpaceFits

\* the same on documents without Union
C16_WithoutUnion == HasKind(doc, {"Union"}) \/ C16_SoftLineFills

\* two soft_lines of one broken group, the first printed as a space and the
\* second as a line break
C16_Filled ==
    /\ SoftLineDecided
    /\ ChildrenMode = "Break"
    /\ flat_by = soft_line
    /\ flat_since
    /\ ~HasKind(doc, {"Union"})

----------------------------------------------------------------------------
(* C17 *)

RECURSIVE Parts(_)
\* d and the documents below it
Parts(d) ==
    {d} \cup
    CASE d.k \in {"Alt", "Union"} -> Parts(d.a) \cup Parts(d.b)
      [] d.k = "Nest" -> Parts(d.a)
      [] d.k \in {"Group", "List"} ->
            UNION {Parts(d.ds[i]) : i \in 1..Len(d.ds)}
      [] d.k = "GroupThen" ->
            UNION {Parts(d.ds[i]) : i \in 1..Len(d.ds)}
              \cup Parts(d.a) \cup Parts(d.b)
      [] OTHER -> {}

\* C17: group applied to a Group returns it unchanged, applied to a List it
\* returns the Group of the same children in the same order, applied to any
\* other document the Group of that one child; so group is idempotent, and
\* grouping a document twice prints what grouping it once prints
C17_GroupIdempotent ==
    /\ \A d \in Parts(doc) :
          /\ group(group(d)) = group(d)
          /\ group(d).k = "Group"
          /\ d.k = "List" => group(d) = [k |-> "Group", ds |-> d.ds]
          /\ d.k = "Group" => group(d) = d
          /\ d.k \notin {"List", "Group"} =>
                group(d) = [k |-> "Group", ds |-> <<d>>]
    /\ Done =>
          /\ print(group(group(doc)), options) = print(group(doc), options)
          /\ doc.k = "Group" => print(group(doc), options) = out

\* a finished run of a Group document with a List below it, which printed a
\* line break
C17_Witness ==
    /\ Done
    /\ doc.k = "Group"
    /\ \E d \in Parts(doc) : d.k = "List" /\ Len(d.ds) > 1
    /\ \E d \in Parts(doc) : d.k = "Group" /\ d # doc
    /\ \E i \in 1..Len(out) : out[i] = "\n"

----------------------------------------------------------------------------
(* C18 *)

RECURSIVE Unfold(_)
\* d with the offset of each FlexBreak taken out into a Nest around it
Unfold(d) ==
    CASE d.k = "Break" ->
            IF d.m = 0 THEN d
            ELSE [k |-> "Nest", n |-> d.m, a |-> [d EXCEPT !.m = 0]]
      [] d.k \in {"Alt", "Union"} ->
            [d EXCEPT !.a = Unfold(d.a), !.b = Unfold(d.b)]
      [] d.k = "Nest" -> [d EXCEPT !.a = Unfold(d.a)]
      [] d.k \in {"Group", "List"} ->
            [d EXCEPT !.ds = [i \in 1..Len(d.ds) |-> Unfold(d.ds[i])]]
      [] d.k = "GroupThen" ->
            [d EXCEPT !.ds = [i \in 1..Len(d.ds) |-> Unfold(d.ds[i])],
                      !.a = Unfold(d.a), !.b = Unfold(d.b)]
      [] OTHER -> d

\* nest applied to a FlexBreak adds to its offset
NestFolds ==
    \A s \in 0..1, o \in 0..MaxNest, size \in 0..MaxNest :
        nest([k |-> "Break", n |-> s, m |-> o], size)
            = [k |-> "Break", n |-> s, m |-> o + size]

\* the output and the last column are those of the unfolded document
FoldPrintsSame ==
    Done =>
        /\ print_to(PrinterNew(Unfold(doc), options)).calls[1].out = out
        /\ print_to(PrinterNew(Unfold(doc), options)).cols = cols

\* the oracle answers and the Union choices are those of the unfolded document
FoldDecidesSame ==
    Done =>
        Decisions(PrinterNew(Unfold(doc), options))
            = Decisions(PrinterNew(doc, options))

\* C18: nest(k) of Break(s, o) is Break(s, o + k), and a document prints the
\* same output, ends at the same column and gets the same oracle answers as
\* the document in which every folded FlexBreak is a Nest around a FlexBreak
C18_NestFoldPreserves == NestFolds /\ FoldPrintsSame /\ FoldDecidesSame

\* the same on documents all of whose groups have children
C18_WithChildren ==
    \/ \E d \in Parts(doc) : d.k \in {"Group", "GroupThen"} /\ d.ds = <<>>
    \/ C18_NestFoldPreserves

\* a finished run that padded a folded FlexBreak after taking a decision
C18_Folded ==
    /\ Done
    /\ Unfold(doc) # doc
    /\ \A d \in Parts(doc) : d.k \in {"Group", "GroupThen"} => d.ds # <<>>
    /\ Decisions(PrinterNew(doc, options)) # <<>>
    /\ \E i \in 1..Len(out) : out[i] = "\n"

----------------------------------------------------------------------------
(* C19 *)

\* the documents of the calls followed to their end: a Union inside a Union
\* attempt, and some of each other kind
FairDocs ==
    {list(<<T(1), union(list(<<union(T(1), T(MaxText)), T(MaxText)>>),
                        list(<<hard_line, T(1)>>)), T(1)>>),
     nest(list(<<T(1), flat_or_break(T(1), T(MaxText)),
                 nest(list(<<GroupThen(<<T(1), line_or_space>>, T(1), hard_line),
                             flat_or_break(T(1), T(MaxText))>>), 1)>>), 1)}
      \cup IndentDocs \cup FillDocs
      \cup {d \in ColumnDocs : d.k = "Nest" /\ d.a.ds[1] = T(1) /\ d.a.ds[4] = nil}

FairInit == Init /\ doc \in FairDocs

\* print runs on one thread, which is never suspended for ever: as long as a
\* step of the call is possible, one is taken
FairSpec == FairInit /\ [][Next]_vars /\ WF_vars(Next)

\* C19: with tab_size > 0 every call of print returns, with the work stack
\* empty and every nested print_to of a Union returned
C19_Terminates ==
    (pc = "start" /\ options.tab_size > 0)
        ~> (pc = "done" /\ actions = <<>> /\ Len(calls) = 1)

\* a returned call whose document holds a Union within a Union attempt and
\* in which an attempt was discarded
C19_Witness ==
    /\ Done
    /\ actions = <<>>
    /\ Len(calls) = 1
    /\ \E d \in Parts(doc) :
          d.k = "Union" /\ HasKind(d.a, {"Union"})
    /\ \E i \in 1..Len(Decisions(PrinterNew(doc, options))) :
          ~Decisions(PrinterNew(doc, options))[i]
    /\ ~HasKind(doc, {"Group", "GroupThen"})

----------------------------------------------------------------------------
(* C20 *)

\* a Column task has just been popped
ColumnPopped == pc = "run" /\ last.op = "Column"

\* a Group has just been popped in Break mode with a Column node among its
\* children or pending below it
ColumnScanned ==
    /\ GroupDecided
    /\ \/ HasKind(last.task.doc, {"Column"})
       \/ \E i \in 1..Len(actions) : HasKind(actions[i].doc, {"Column"})

\* C20: a popped Column task is replaced on the stack by one task, holding
\* what the closure returns for the column of that moment, with the
\* indentation and the mode of the Column task, and nothing is printed; the
\* oracle's answer for a line with a Column node is the one it gives when
\* the node counts for nothing, whatever the closure would return
C20_ColumnExpandsOnce ==
    /\ ColumnPopped =>
          /\ Pushed = <<Task(last.task.indent, last.task.mode,
                             Invoke(last.task.doc.f, last.pre.cols))>>
          /\ Len(actions) = Len(last.pre.actions)
          /\ Emitted = <<>>
          /\ cols = last.pre.cols
    /\ ColumnScanned =>
          (ChildrenMode = "Flat"
              <=> ~Overflows(GroupLine(Stops("fail")), last.pre.cols,
                             options.width))
    /\ (Done /\ doc = append(text(Word(MaxText)), column("digits"))) =>
          out = Word(MaxText) \o to_string(MaxText) \o <<".">>

\* a Column task of a Flat group under indentation has just been expanded at
\* a column other than 0, into a document the oracle did not count
C20_Witness ==
    /\ ColumnPopped
    /\ last.task.mode = "Flat"
    /\ last.task.indent = 1
    /\ last.pre.cols > 0
    /\ Top(actions).doc = Invoke(last.task.doc.f, last.pre.cols)
    /\ Top(actions).doc # Invoke(last.task.doc.f, 0)
    /\ last.pre.cols + Total(Top(actions).doc) > options.width

----------------------------------------------------------------------------
(* C21 *)

\* the characters of s that come from Text nodes of the explored documents
Letters(s) == SelectSeq(s, LAMBDA c : c \notin {" ", "\n", "\r", "\t"})

RECURSIVE Traversals(_)
\* the in-order sequences of Text contents of d, one for each way of keeping
\* one branch of every Alt and Union and one follow-up of every GroupThen
Traversals(d) ==
    CASE d.k = "Text" -> {d.t}
      [] d.k \in {"Alt", "Union"} -> Traversals(d.a) \cup Traversals(d.b)
      [] d.k = "Nest" -> Traversals(d.a)
      [] d.k \in {"Group", "List"} ->
            IF d.ds = <<>> THEN {<<>>}
            ELSE {x \o y : x \in Traversals(Head(d.ds)),
                           y \in Traversals([d EXCEPT !.ds = Tail(@)])}
      [] d.k = "GroupThen" ->
            {x \o y : x \in Traversals([k |-> "List", ds |-> d.ds]),
                      y \in Traversals(d.a) \cup Traversals(d.b)}
      [] OTHER -> {<<>>}

IsPrefix(s, t) == Len(s) <= Len(t) /\ SubSeq(t, 1, Len(s)) = s

\* C21: the children of a List, a Group and a GroupThen are pushed last child
\* first, the follow-up of a GroupThen below them; at every moment the Text
\* contents in the returned string are the beginning of an in-order traversal
\* of the document that keeps one branch of each Alt and Union, and at the
\* return they are a whole one: no Text is printed twice, skipped or moved
C21_EmissionInDocumentOrder ==
    /\ (pc = "run" /\ last.op \in {"List", "Group"}) =>
          /\ Len(Pushed) = Len(last.task.doc.ds)
          /\ \A i \in 1..Len(Pushed) :
                Pushed[i].doc = last.task.doc.ds[Len(Pushed) + 1 - i]
    /\ (pc = "run" /\ last.op = "GroupThen") =>
          /\ Len(Pushed) = Len(last.task.doc.ds) + 1
          /\ Pushed[1].doc \in {last.task.doc.a, last.task.doc.b}
          /\ \A i \in 1..Len(last.task.doc.ds) :
                Pushed[i + 1].doc = last.task.doc.ds[Len(Pushed) - i]
    /\ (Running /\ ~HasKind(doc, {"Column"})) =>
          \E s \in Traversals(doc) : IsPrefix(Letters(out), Letters(s))
    /\ (Done /\ ~HasKind(doc, {"Column"})) =>
          \E s \in Traversals(doc) : Letters(out) = Letters(s)

\* a returned call on a document with a GroupThen and several traversals,
\* which printed at least three Texts' worth of characters
C21_Witness ==
    /\ Done
    /\ HasKind(doc, {"GroupThen"})
    /\ HasKind(doc, {"Alt"})
    /\ Cardinality(Traversals(doc)) > 2
    /\ Len(Letters(out)) > 3

----------------------------------------------------------------------------
(* C22 *)

\* the oracle asked, at the column and with the pending stack of the moment,
\* about a HardLine of the given mode preceded by the flat document x
HardLineProbe(mode, x) ==
    fitting(<<Task(0, mode, hard_line), Task(0, "Flat", x)>>, actions, cols,
            options.width)

\* C22: a HardLine reached by the oracle in a Break task ends the lookahead
\* with true and one reached in a Flat task ends it with false, whatever is
\* pending after it and even when the column is already above width; before
\* it only the overflow of what precedes it decides; a Group whose first
\* child is a HardLine is therefore broken
C22_OracleHardLinePolicy ==
    /\ pc = "run" =>
          /\ fitting(<<Task(0, "Break", hard_line)>>, actions, cols,
                     options.width)
          /\ ~fitting(<<Task(0, "Flat", hard_line)>>, actions, cols,
                      options.width)
          /\ \A x \in {nil, T(1), T(MaxText)} :
                /\ HardLineProbe("Break", x)
                      <=> cols + Total(x) <= options.width
                /\ ~HardLineProbe("Flat", x)
          /\ (Looping(P) /\ Top(actions).doc = hard_line) =>
                (fitting(<<>>, actions, cols, options.width)
                    <=> Top(actions).mode = "Break")
    /\ (GroupDecided /\ last.task.doc.ds[1] = hard_line) =>
          ChildrenMode = "Break"

\* pending content that does not fit is on the stack, and the oracle answers
\* true for a Break-mode HardLine in front of it and false for a Flat one
C22_Witness ==
    /\ pc = "run"
    /\ cols > 0
    /\ cols <= options.width
    /\ Len(actions) > 1
    /\ ~fitting(<<>>, actions, cols, options.width)
    /\ HardLineProbe("Break", nil)
    /\ ~HardLineProbe("Flat", nil)

----------------------------------------------------------------------------
(* C23 *)

RECURSIVE UnionAs(_, _)
\* d with each Union replaced: by the Alt of its two branches, which a task
\* follows by its mode (how = "mode"), or by its fallback (how = "fallback")
UnionAs(d, how) ==
    CASE d.k = "Union" ->
            IF how = "mode"
            THEN [k |-> "Alt", a |-> UnionAs(d.a, how), b |-> UnionAs(d.b, how)]
            ELSE UnionAs(d.b, how)
      [] d.k = "Alt" ->
            [d EXCEPT !.a = UnionAs(d.a, how), !.b = UnionAs(d.b, how)]
      [] d.k = "Nest" -> [d EXCEPT !.a = UnionAs(d.a, how)]
      [] d.k \in {"Group", "List"} ->
            [d EXCEPT !.ds = [i \in 1..Len(d.ds) |-> UnionAs(d.ds[i], how)]]
      [] d.k = "GroupThen" ->
            [d EXCEPT !.ds = [i \in 1..Len(d.ds) |-> UnionAs(d.ds[i], how)],
                      !.a = UnionAs(d.a, how), !.b = UnionAs(d.b, how)]
      [] OTHER -> d

\* the oracle's answer for the group just popped when every Union it scans
\* is replaced as said by how
AnswerWithUnionAs(how) ==
    fitting(RevTasks(UnionAs(List(last.task.doc.ds), how).ds,
                     last.task.indent, "Flat"),
            [i \in 1..(Len(last.pre.actions) - 1) |->
                [last.pre.actions[i] EXCEPT !.doc = UnionAs(@, how)]],
            last.pre.cols, options.width)

\* a Group has just been popped in Break mode with a Union among its
\* children or pending below it
UnionScanned ==
    /\ GroupDecided
    /\ \/ HasKind(last.task.doc, {"Union"})
       \/ \E i \in 1..(Len(last.pre.actions) - 1) :
             HasKind(last.pre.actions[i].doc, {"Union"})

\* C23: the oracle follows one branch of a Union, the one the mode of its
\* task picks (the attempt of a Flat task, the fallback of a Break task), and
\* measures only that branch
C23_OracleFollowsModeBranch ==
    UnionScanned => (ChildrenMode = "Flat" <=> AnswerWithUnionAs("mode"))

\* the oracle follows the fallback of a Union whatever the mode of its task,
\* and measures only that branch
C23_OracleFollowsFallback ==
    UnionScanned => (ChildrenMode = "Flat" <=> AnswerWithUnionAs("fallback"))

\* a Union scanned as a child of the group, whose two branches give
\* different answers
C23_BranchesDiffer ==
    /\ UnionScanned
    /\ HasKind(last.task.doc, {"Union"})
    /\ AnswerWithUnionAs("mode") # AnswerWithUnionAs("fallback")

----------------------------------------------------------------------------
(* C24 *)

\* the steps that emit a token whose column is tested
MeasuredOps == {"Text", "NewLine", "Break"}

\* the steps of a print_to loop that pop a task
TaskOps ==
    {"Nil", "Alt", "Union", "Nest", "Text", "NewLine", "EmptyLine", "Break",
     "Group", "GroupThen", "List", "Column"}

\* the print_to invocations enclosing the current one (of the state before
\* the step when a nested one has just returned) are as they were
EnclosingUntouched ==
    LET n == Len(last.pre.calls)
    IN  \A i \in 1..(n - 1) :
           /\ calls[i].fits = last.pre.calls[i].fits
           /\ (last.op # "commit" => calls[i] = last.pre.calls[i])

\* C24: the fits flag of a print_to invocation starts true and is true
\* exactly as long as the column was at most width after every Text,
\* HardLine and FlexBreak the invocation emitted; no other step changes it,
\* an inner attempt, kept or discarded, leaves the flag of the enclosing
\* invocation as it was, and a token that exceeds width is printed all the
\* same
C24_FitsFlag ==
    (pc = "run" /\ last.op \in TaskOps \cup {"commit", "rollback"}) =>
        LET before == Cur(last.pre)
            n == Len(last.pre.calls)
        IN  /\ EnclosingUntouched
            /\ last.op \in MeasuredOps =>
                  /\ Len(calls) = n
                  /\ Cur(P).fits <=> (before.fits /\ cols <= options.width)
                  /\ Len(Cur(P).out) >= Len(before.out)
                  /\ last.op = "Text" =>
                        Cur(P).out = before.out \o last.task.doc.t
            /\ last.op \in TaskOps \ (MeasuredOps \cup {"Union"}) =>
                  /\ Len(calls) = n
                  /\ Cur(P).fits <=> before.fits
            /\ last.op = "Union" =>
                  /\ Len(calls) = n + 1
                  /\ Cur(P).fits
                  /\ Cur(P).out = <<>>
            /\ last.op = "commit" =>
                  /\ before.fits
                  /\ Len(calls) = n - 1
                  /\ Cur(P).out = last.pre.calls[n - 1].out \o before.out
            /\ last.op = "rollback" =>
                  /\ ~before.fits
                  /\ Len(calls) = n - 1
                  /\ Cur(P).out = last.pre.calls[n - 1].out

\* an attempt nested in another attempt has just been discarded, and the
\* enclosing attempt, which had printed a Text within width, still fits
C24_Witness ==
    /\ pc = "run"
    /\ last.op = "rollback"
    /\ Len(calls) > 1
    /\ Cur(P).fits
    /\ Cur(P).out # <<>>
    /\ Cur(last.pre).out # <<>>

\* a Text that exceeds width has been printed after one that did not
C24_OverWidthPrinted ==
    /\ pc = "run"
    /\ last.op = "Text"
    /\ cols > options.width
    /\ Cur(last.pre).fits
    /\ Cur(last.pre).out # <<>>

----------------------------------------------------------------------------
(* C25 *)

\* the oracle asked, at the current column and with the current stack
\* pending, about x preceded by y, both in the given mode
ProbeAfter(mode, y, x) ==
    fitting(<<Task(0, mode, x), Task(0, mode, y)>>, actions, cols, options.width)

ProbeDocs == {nil, T(1), T(MaxText), hard_line, line_or_space, empty_line}

\* C25: a BlankLine is transparent to column tracking.  The engine prints
\* the line break and leaves cols, and the fits flag, as they were.  In the
\* oracle a BlankLine is a no-op: at every column and before every content
\* the answer is the one obtained with a Nil in its place, and, the column
\* being within width, the one obtained without it; the oracle's answer for
\* a BlankLine followed by a Break-mode HardLine is that of the HardLine
C25_BlankLineTransparent ==
    /\ (pc = "run" /\ last.op = "EmptyLine") =>
          /\ cols = last.pre.cols
          /\ actions = Pop(last.pre.actions)
          /\ Cur(P).fits <=> Cur(last.pre).fits
          /\ Cur(P).out = Cur(last.pre).out \o line_break(options)
    /\ pc = "run" =>
          \A mode \in {"Flat", "Break"}, x \in ProbeDocs :
             /\ ProbeAfter(mode, empty_line, x) <=> ProbeAfter(mode, nil, x)
             /\ cols <= options.width =>
                   (ProbeAfter(mode, empty_line, x) <=>
                       fitting(<<Task(0, mode, x)>>, actions, cols, options.width))
    /\ (pc = "run" /\ cols <= options.width) =>
          ProbeAfter("Break", empty_line, hard_line)

\* a BlankLine has been printed at a column other than 0, and the oracle,
\* asked about a BlankLine followed by a Text, answers by the Text: one Text
\* still fits and a wider one does not
C25_Witness ==
    /\ pc = "run"
    /\ last.op = "EmptyLine"
    /\ cols > 0
    /\ ProbeAfter("Flat", empty_line, T(1))
    /\ ~ProbeAfter("Flat", empty_line, T(MaxText))

----------------------------------------------------------------------------
(* C26 *)

\* a Group or a GroupThen has just been popped in Break mode: the oracle
\* has been consulted
OracleConsulted ==
    /\ pc = "run"
    /\ last.op \in {"Group", "GroupThen"}
    /\ last.task.mode = "Break"

\* what the arm pushes for the task just popped when the children are
\* pushed in mode m
PushedFor(m) ==
    LET t == last.task
    IN  (IF last.op = "GroupThen"
         THEN <<Task(t.indent, t.mode, IF m = "Flat" THEN t.doc.a ELSE t.doc.b)>>
         ELSE <<>>)
          \o RevTasks(t.doc.ds, t.indent, m)

\* C26: consulting the oracle is pure with respect to the printer.  After a
\* Group or GroupThen decision the column, the output, the fits flag and the
\* pending print_to invocations are what they were before it, the stack
\* below the popped task is untouched, and what lies above it is what the
\* arm pushes, which depends on the answer only through the mode
C26_OraclePure ==
    OracleConsulted =>
        LET below == Pop(last.pre.actions)
            answer == GroupFits([last.pre EXCEPT !.actions = below],
                                last.task.indent, last.task.doc.ds)
        IN  /\ cols = last.pre.cols
            /\ calls = last.pre.calls
            /\ Len(actions) >= Len(below)
            /\ SubSeq(actions, 1, Len(below)) = below
            /\ actions = below \o PushedFor(IF answer THEN "Flat" ELSE "Break")
            /\ \A i \in 1..Len(PushedFor("Flat")) :
                  /\ PushedFor("Flat")[i].indent = PushedFor("Break")[i].indent
                  /\ (last.op = "Group" \/ i > 1) =>
                        PushedFor("Flat")[i].doc = PushedFor("Break")[i].doc

\* the oracle has been consulted for a Group with children in the middle of
\* a line, with output already written and tasks pending below the group
C26_Witness ==
    /\ OracleConsulted
    /\ last.op = "Group"
    /\ last.task.doc.ds # <<>>
    /\ cols > 0
    /\ Cur(P).out # <<>>
    /\ Len(last.pre.actions) > 1
    /\ ChildrenMode = "Flat"

\* the same for a GroupThen
C26_GroupThenConsulted ==
    /\ OracleConsulted
    /\ last.op = "GroupThen"
    /\ last.task.doc.ds # <<>>
    /\ cols > 0
    /\ Len(last.pre.actions) > 1

----------------------------------------------------------------------------
(* C27 *)

\* the task on top of the stack rendered alone, from the current column, to
\* the end: what it and all its descendants print
RenderedAlone ==
    print_to([options |-> options, cols |-> cols,
              actions |-> <<Top(actions)>>,
              calls |-> <<Frame(0, 0, 0, "Break", Nil, Nil, NoSnap)>>]).calls[1].out

\* C27: Flat mode is inherited and never left.  Every task pushed while a
\* Flat task is processed is Flat, the fallback pushed when the attempt of a
\* Flat Union is discarded included; a Flat Group or GroupThen pushes what it
\* would push had the oracle answered "fits"; a Flat FlexBreak prints its
\* spaces; and a Flat task without HardLine, BlankLine or ColumnDependent
\* node prints, with all its descendants, no line break
C27_FlatInherited ==
    /\ (pc = "run" /\ last.op \in TaskOps /\ last.task.mode = "Flat") =>
          /\ \A i \in Len(last.pre.actions)..Len(actions) :
                actions[i].mode = "Flat"
          /\ last.op \in {"Group", "GroupThen"} =>
                actions = Pop(last.pre.actions) \o PushedFor("Flat")
          /\ last.op = "Break" =>
                Cur(P).out = Cur(last.pre).out \o Repeat(" ", last.task.doc.n)
    /\ (pc = "run" /\ last.op = "rollback" /\ Cur(last.pre).mode = "Flat") =>
          Top(actions).mode = "Flat"
    /\ (pc = "run" /\ Looping(P) /\ Top(actions).mode = "Flat"
          /\ ~HasKind(Top(actions).doc, {"NewLine", "EmptyLine", "Column"})) =>
          NoLineBreak(RenderedAlone)

\* a Flat FlexBreak has been printed as spaces at a column from which the
\* spaces exceed the width
C27_Witness ==
    /\ pc = "run"
    /\ last.op = "Break"
    /\ last.task.mode = "Flat"
    /\ last.task.doc.n > 0
    /\ cols > options.width
    /\ Len(calls) = 1

\* a Flat task that holds a FlexBreak below it is about to be rendered
C27_FlatDescendants ==
    /\ pc = "run"
    /\ Looping(P)
    /\ Top(actions).mode = "Flat"
    /\ Top(actions).doc.k \in {"List", "Group", "GroupThen", "Nest"}
    /\ HasKind(Top(actions).doc, {"Break"})
    /\ ~HasKind(Top(actions).doc, {"NewLine", "EmptyLine", "Column"})

\* the fallback of a discarded Flat attempt has been pushed
C27_FlatRollback ==
    pc = "run" /\ last.op = "rollback" /\ Cur(last.pre).mode = "Flat"

----------------------------------------------------------------------------
(* C28 *)

RECURSIVE Whole(_)
\* the output emitted so far: the returned string followed by the buffers
\* of the nested print_to invocations, outermost first
Whole(cs) == IF cs = <<>> THEN <<>> ELSE Head(cs).out \o Whole(Tail(cs))

\* the measured width of s after its last line break (of all of s if none)
LineWidth(s) ==
    LET brks == {i \in 1..Len(s) : s[i] = "\n"}
        from == IF brks = {} THEN 0
                ELSE CHOOSE i \in brks : \A j \in brks : j <= i
    IN  measure_text_width(SubSeq(s, from + 1, Len(s)))

\* by how much the column counter of printer p exceeds the width of the
\* output emitted since the most recent line break
Excess(p) == p.cols - LineWidth(Whole(p.calls))

SpaceRun == pc \in {"run", "done"} /\ options.indent_kind = "Space"

\* C28, as stated: under the Space policy the column counter equals the
\* measured width of the output emitted since the most recent line break
C28_AsStated == SpaceRun => Excess(P) = 0

\* C28, amended: under the Space policy the column counter equals the
\* measured width of the output emitted since the most recent line break of
\* a HardLine or of a Break-mode FlexBreak, the line breaks of BlankLines
\* left out: a BlankLine leaves the counter, so that after it the counter
\* exceeds the width of the current line by the column the BlankLine was
\* printed at, until a HardLine or a Break-mode FlexBreak sets it again.  A
\* commit leaves the excess and a rollback restores the one of the moment the
\* Union was popped; in a document without BlankLine the excess is 0
C28_ColsTrackLine ==
    (SpaceRun /\ last.op \in TaskOps \cup {"commit", "rollback", "return"}) =>
        /\ Excess(P) >= 0
        /\ ~HasKind(doc, {"EmptyLine"}) => Excess(P) = 0
        /\ CASE last.op = "EmptyLine" ->
                   /\ Excess(P) = cols
                   /\ cols = last.pre.cols
             [] last.op = "NewLine" -> Excess(P) = 0
             [] last.op = "Break" /\ last.task.mode = "Break" -> Excess(P) = 0
             [] last.op = "rollback" ->
                   /\ Excess(P) = Excess(Cur(last.pre).snap)
                   /\ Whole(calls) = Whole(Cur(last.pre).snap.calls)
             [] last.op = "commit" ->
                   /\ Excess(P) = Excess(last.pre)
                   /\ Whole(calls) = Whole(last.pre.calls)
             [] OTHER -> Excess(P) = Excess(last.pre)

\* a Text has been printed on the line started by a BlankLine that was
\* printed at a column other than 0
C28_Witness ==
    /\ SpaceRun
    /\ last.op = "Text"
    /\ Excess(P) > 0
    /\ LineWidth(Whole(calls)) > 0

\* an attempt that printed a line break has been discarded on a line that
\* holds a Text, in a document without BlankLine
C28_RolledBack ==
    /\ SpaceRun
    /\ last.op = "rollback"
    /\ cols > 0
    /\ ~NoLineBreak(Cur(last.pre).out)
    /\ ~HasKind(doc, {"EmptyLine"})

----------------------------------------------------------------------------
(* C29 *)

\* the stop depth of the i-th print_to invocation
StopDepth(i) == calls[i].stop_at

\* C29: stack discipline of a nested render.  The stop depth n of a nested
\* print_to is the length of the stack once the Union task is popped.  While
\* it runs, and while the renders nested in it run, the stack is at least n
\* long and its n lowest tasks are those that were pending when the Union
\* task was popped; a task is popped by it only from above n; it returns
\* exactly when the length is n; and after a commit the stack is the pending
\* work as it was, nothing of it consumed
C29_NestedStackDiscipline ==
    /\ pc = "run" =>
          \A i \in 2..Len(calls) :
              /\ StopDepth(i) = Len(calls[i].snap.actions)
              /\ StopDepth(i) >= StopDepth(i - 1)
              /\ Len(actions) >= StopDepth(i)
              /\ \A j \in 1..StopDepth(i) : actions[j] = calls[i].snap.actions[j]
    /\ (pc = "run" /\ last.op \in TaskOps /\ Len(last.pre.calls) > 1) =>
          /\ Len(last.pre.actions) > Cur(last.pre).stop_at
          /\ last.op = "Union" =>
                /\ StopDepth(Len(calls)) = Len(last.pre.actions) - 1
                /\ Len(actions) = StopDepth(Len(calls)) + 1
                /\ Top(actions).doc = last.task.doc.a
    /\ UnionReturned =>
          /\ Len(last.pre.actions) = Returning.stop_at
          /\ last.op = "commit" => actions = Returning.snap.actions
          /\ last.op = "rollback" => Pop(actions) = Returning.snap.actions
    /\ (pc = "run" /\ Len(calls) > 1 /\ Len(actions) = StopDepth(Len(calls))) =>
          ~Looping(P)

\* an attempt that pushed and popped several tasks above a pending stack
\* has been kept: the stack is the pending work, which is not empty
C29_Witness ==
    /\ UnionReturned
    /\ last.op = "commit"
    /\ Returning.attempt.k \in {"List", "Group"}
    /\ Len(Returning.attempt.ds) > 1
    /\ Returning.stop_at > 0
    /\ actions = Returning.snap.actions
    /\ Returning.out # <<>>

\* a render nested in a nested render runs above a deeper stop depth
C29_NestedTwice ==
    /\ pc = "run"
    /\ Len(calls) > 2
    /\ StopDepth(3) > StopDepth(2)
    /\ StopDepth(2) > 0
    /\ Len(actions) > StopDepth(3)

----------------------------------------------------------------------------
(* C30 *)

\* a GroupThen task has just been popped
GroupThenPopped == pc = "run" /\ last.op = "GroupThen"

\* the task pushed for the follow-up, and those pushed for the children
FollowUp == actions[Len(last.pre.actions)]
Children == SubSeq(actions, Len(last.pre.actions) + 1, Len(actions))

\* the oracle's answer for the children of the GroupThen just popped
GroupThenFits ==
    GroupFits([last.pre EXCEPT !.actions = Pop(@)], last.task.indent,
              last.task.doc.ds)

\* C30: the follow-up of a GroupThen agrees with the decision taken for its
\* group.  The children are pushed Flat when the task is Flat or the oracle
\* answers "fits", and in Break mode otherwise; the follow-up is doc_flat in
\* the first case and doc_break in the second; it is pushed with the mode of
\* the GroupThen task, Break also when the children are Flat, and below all
\* the children, so that it is popped after them
C30_FollowUpAgrees ==
    GroupThenPopped =>
        LET t == last.task
            flat == t.mode = "Flat" \/ GroupThenFits
        IN  /\ Len(actions) = Len(last.pre.actions) + Len(t.doc.ds)
            /\ SubSeq(actions, 1, Len(last.pre.actions) - 1) = Pop(last.pre.actions)
            /\ Children = RevTasks(t.doc.ds, t.indent,
                                   IF flat THEN "Flat" ELSE "Break")
            /\ FollowUp.doc = (IF flat THEN t.doc.a ELSE t.doc.b)
            /\ FollowUp.mode = t.mode
            /\ FollowUp.indent = t.indent
            /\ \A i \in 1..Len(Children) :
                  (Children[i].mode = "Flat") <=> (FollowUp.doc = t.doc.a)

\* a Break-mode GroupThen whose follow-ups differ has had its children
\* pushed Flat and its flat follow-up pushed below them in Break mode
C30_Witness ==
    /\ GroupThenPopped
    /\ last.task.mode = "Break"
    /\ last.task.doc.a # last.task.doc.b
    /\ Children # <<>>
    /\ Top(actions).mode = "Flat"
    /\ FollowUp.mode = "Break"
    /\ FollowUp.doc = last.task.doc.a

\* the same with the children pushed in Break mode and the break follow-up
C30_BreakFollowUp ==
    /\ GroupThenPopped
    /\ last.task.doc.a # last.task.doc.b
    /\ Children # <<>>
    /\ Top(actions).mode = "Break"
    /\ FollowUp.doc = last.task.doc.b

\* the same for a GroupThen popped in Flat mode
C30_FlatGroupThen ==
    /\ GroupThenPopped
    /\ last.task.mode = "Flat"
    /\ last.task.doc.a # last.task.doc.b
    /\ FollowUp.mode = "Flat"

====
